---- MODULE Spec2Model ----
(***************************************************************************)
(* Model of src/youtube-upcoming.js: the "upcoming live streams" widget.   *)
(*                                                                         *)
(* One widget lifecycle is one run of the script's IIFE on a page load:    *)
(* configuration check, optimistic render from the localStorage cache,     *)
(* then fetchUpcoming (search request, details request, normalise,         *)
(* filter, sort, render, cache write) and the .then callback of the        *)
(* startup sequence.  localStorage and the wall clock survive a reload.    *)
(*                                                                         *)
(* Times are milliseconds since the epoch, as Date.now() returns them.     *)
(* An ISO-8601 time string is the record [set, s, ms] (seconds and         *)
(* milliseconds part); a null / absent / empty string has set = FALSE.     *)
(***************************************************************************)
EXTENDS Integers, Sequences, FiniteSets, TLC

(***************************************************************************)
(* Bounds of the model.                                                    *)
(***************************************************************************)
MaxItems == 2          \* items in a details response
T0       == 100000000  \* Date.now() at the first page load

(***************************************************************************)
(* Program constants.                                                      *)
(***************************************************************************)
CACHE_MS == 5 * 60 * 1000
HourMs   == 60 * 60 * 1000

\* The instants at which the environment lets something happen.
Times == { T0, T0 + CACHE_MS - 1, T0 + CACHE_MS + 1 }

(***************************************************************************)
(* Strings, numbers and time strings.                                      *)
(***************************************************************************)
\* A JS number that may be NaN.
NaN    == [nan |-> TRUE, v |-> 0]
Num(n) == [nan |-> FALSE, v |-> n]

\* null (and every other falsy value of a time-string field).
Null == [set |-> FALSE, s |-> 0, ms |-> 0]

\* The ISO-8601 string that denotes instant t.
ISO(t) == [set |-> TRUE, s |-> t \div 1000, ms |-> t % 1000]

\* new Date(iso).getTime()
GetTime(iso) == iso.s * 1000 + iso.ms

\* x || null
OrNull(x) == IF x.set THEN x ELSE Null

IsDigit(c) == c \in {"0", "1", "2", "3", "4", "5", "6", "7", "8", "9"}

DigitVal(c) ==
  CASE c = "0" -> 0 [] c = "1" -> 1 [] c = "2" -> 2 [] c = "3" -> 3
    [] c = "4" -> 4 [] c = "5" -> 5 [] c = "6" -> 6 [] c = "7" -> 7
    [] c = "8" -> 8 [] c = "9" -> 9

\* Value of the longest prefix of digits of str, acc being the value so far.
RECURSIVE ParseDigits(_, _)
ParseDigits(str, acc) ==
  IF str = <<>> \/ ~IsDigit(Head(str)) THEN acc
  ELSE ParseDigits(Tail(str), acc * 10 + DigitVal(Head(str)))

\* parseInt(str, 10): optional sign, then digits; NaN when there is no digit.
ParseInt(str) ==
  LET neg  == str # <<>> /\ Head(str) = "-"
      body == IF str # <<>> /\ Head(str) \in {"-", "+"} THEN Tail(str) ELSE str
  IN IF body = <<>> \/ ~IsDigit(Head(body)) THEN NaN
     ELSE Num(IF neg THEN 0 - ParseDigits(body, 0) ELSE ParseDigits(body, 0))

\* Math.max(0, n): NaN if n is NaN.
MathMax0(n) == IF n.nan THEN NaN ELSE IF n.v > 0 THEN n ELSE Num(0)

\* attr || dflt, for an attribute value (<<>> is null or the empty string).
AttrOr(attr, dflt) == IF attr = <<>> THEN dflt ELSE attr

\* HIDE_PAST_HOURS for a given data-hide-past-hours attribute.
HidePastHours(attr) == MathMax0(ParseInt(AttrOr(attr, <<"6">>)))

\* hidePastMs = HIDE_PAST_HOURS * 60 * 60 * 1000
HidePastMs(hours) == IF hours.nan THEN NaN ELSE Num(hours.v * HourMs)

(***************************************************************************)
(* Inputs.                                                                 *)
(***************************************************************************)
\* Values of data-hide-past-hours: absent, "0", "-3", "ab".
HideAttrs == { <<>>, <<"0">>, <<"-", "3">>, <<"a", "b">> }

\* Values of data-api-key and data-channel-id: absent or present.
KeyAttrs == { <<>>, <<"k">> }

\* What a fetch() of one endpoint can come to.
FailKinds == { "neterr", "http_error", "ok_badjson", "ok_null" }
ResKinds  == FailKinds \cup { "ok_noitems", "ok_items" }

\* All sequences over S of length 0..n.
SeqsUpTo(S, n) == UNION { [1..k -> S] : k \in 0..n }

\* Search responses: items is the list of items, TRUE for one with id.videoId.
SearchItemLists == { <<>>, <<FALSE>>, <<TRUE, FALSE, TRUE>> }

SearchResponses ==
  { [kind |-> k, items |-> <<>>] : k \in ResKinds \ {"ok_items"} } \cup
  { [kind |-> "ok_items", items |-> it] : it \in SearchItemLists }

\* liveStreamingDetails of a details item.
Lsd(sc, st, en) ==
  [hasLsd |-> TRUE, scheduledStartTime |-> sc, actualStartTime |-> st,
   actualEndTime |-> en]

NoLsd ==
  [hasLsd |-> FALSE, scheduledStartTime |-> Null, actualStartTime |-> Null,
   actualEndTime |-> Null]

\* The items a details response is built from at "now" with grace period g
\* (ms): no liveStreamingDetails; never started and scheduled just before, at
\* and just after now - g; scheduled ahead but reported ended.
LsdChoices(now, g) ==
  { NoLsd,
    Lsd(ISO(now - g - 1), Null, Null),
    Lsd(ISO(now - g), Null, Null),
    Lsd(ISO(now - g + 1), Null, Null),
    Lsd(ISO(now - g + 1), Null, ISO(now)) }

\* Every combination of the three times, for the filter taken alone; the
\* scheduled-start may also lie far in the past (the epoch).
AllLsd(now, g) ==
  { NoLsd } \cup
  { Lsd(sc, st, en) :
      sc \in { Null, ISO(0), ISO(now - g - 1), ISO(now - g), ISO(now - g + 1) },
      st \in { Null, ISO(now - g - 1) },
      en \in { Null, ISO(now) } }

\* Details responses; the i-th item carries id i.
VideosResponses(now, g) ==
  { [kind |-> k, items |-> <<>>] : k \in ResKinds \ {"ok_items"} } \cup
  { [kind |-> "ok_items", items |-> it] : it \in SeqsUpTo(LsdChoices(now, g), MaxItems) }

(***************************************************************************)
(* Cache store.                                                            *)
(***************************************************************************)
\* localStorage.getItem(CACHE_KEY): no item, an unparsable string, or the
\* JSON text of { ts, data }.
NoItem   == [kind |-> "none", ts |-> 0, data |-> <<>>]
BadItem  == [kind |-> "garbage", ts |-> 0, data |-> <<>>]

\* JSON.stringify({ ts, data })
Stringify(ts, data) == [kind |-> "json", ts |-> ts, data |-> data]

\* readCache without the age check.
ReadCacheNoExpiry(item, now) ==
  IF item.kind = "json" THEN [hit |-> TRUE, data |-> item.data]
  ELSE [hit |-> FALSE, data |-> <<>>]

\* readCache(): [hit, data]; hit = FALSE is the null result.
ReadCache(item, now) ==
  IF item.kind = "none" THEN [hit |-> FALSE, data |-> <<>>]
  ELSE IF item.kind = "garbage" THEN [hit |-> FALSE, data |-> <<>>]
  ELSE IF now - item.ts > CACHE_MS THEN [hit |-> FALSE, data |-> <<>>]
  ELSE [hit |-> TRUE, data |-> item.data]

\* writeCache that keeps an item already there instead of overwriting it.
WriteCacheKeepFirst(item, data, now, setItemOk) ==
  IF setItemOk /\ item.kind # "json" THEN Stringify(now, data) ELSE item

\* writeCache(data): the item afterwards; a setItem that throws is swallowed.
WriteCache(item, data, now, setItemOk) ==
  IF setItemOk THEN Stringify(now, data) ELSE item

(***************************************************************************)
(* Presentation.                                                           *)
(***************************************************************************)
NoGrid      == [kind |-> "none", videos |-> <<>>]
ConfigError == [kind |-> "configError", videos |-> <<>>]
BlankGrid   == [kind |-> "blank", videos |-> <<>>]
ErrorGrid   == [kind |-> "error", videos |-> <<>>]

\* renderGrid(videos): the call-to-action for an empty list, else the cards.
RenderGrid(videos) ==
  IF Len(videos) = 0 THEN [kind |-> "cta", videos |-> <<>>]
  ELSE [kind |-> "cards", videos |-> videos]

(***************************************************************************)
(* Freshness filter and sorter.                                            *)
(***************************************************************************)
\* The map step: a details item to an event record.
Normalize(v, i) ==
  [id          |-> i,
   scheduled   |-> IF v.hasLsd THEN OrNull(v.scheduledStartTime) ELSE Null,
   actualStart |-> IF v.hasLsd THEN OrNull(v.actualStartTime) ELSE Null,
   actualEnd   |-> IF v.hasLsd THEN OrNull(v.actualEndTime) ELSE Null]

NormalizeAll(items) == [i \in 1..Len(items) |-> Normalize(items[i], i)]

\* The filter callback without the actualEnd test.
KeepEnded(ev, now, hidePastMs) ==
  IF ev.scheduled.set
     /\ ~ev.actualStart.set
     /\ ~hidePastMs.nan
     /\ GetTime(ev.scheduled) + hidePastMs.v < now
  THEN FALSE
  ELSE TRUE

\* The filter callback with <= for <.
KeepInclusive(ev, now, hidePastMs) ==
  IF ev.actualEnd.set THEN FALSE
  ELSE IF ev.scheduled.set
          /\ ~ev.actualStart.set
          /\ ~hidePastMs.nan
          /\ GetTime(ev.scheduled) + hidePastMs.v <= now
       THEN FALSE
       ELSE TRUE

\* The filter callback that takes the time of a missing scheduled-start:
\* new Date(null).getTime() is 0.
KeepUnscheduledAsEpoch(ev, now, hidePastMs) ==
  IF ev.actualEnd.set THEN FALSE
  ELSE IF ~ev.actualStart.set
          /\ ~hidePastMs.nan
          /\ (IF ev.scheduled.set THEN GetTime(ev.scheduled) ELSE 0)
               + hidePastMs.v < now
       THEN FALSE
       ELSE TRUE

\* The filter callback without the actualStart test.
KeepIgnoresStart(ev, now, hidePastMs) ==
  IF ev.actualEnd.set THEN FALSE
  ELSE IF ev.scheduled.set
          /\ ~hidePastMs.nan
          /\ GetTime(ev.scheduled) + hidePastMs.v < now
       THEN FALSE
       ELSE TRUE

\* The filter callback; hidePastMs may be NaN, and then no comparison holds.
Keep(ev, now, hidePastMs) ==
  IF ev.actualEnd.set THEN FALSE
  ELSE IF ev.scheduled.set
          /\ ~ev.actualStart.set
          /\ ~hidePastMs.nan
          /\ GetTime(ev.scheduled) + hidePastMs.v < now
       THEN FALSE
       ELSE TRUE

RECURSIVE FilterEvents(_, _, _)
FilterEvents(evs, now, hidePastMs) ==
  IF evs = <<>> THEN <<>>
  ELSE LET rest == FilterEvents(Tail(evs), now, hidePastMs)
       IN IF Keep(Head(evs), now, hidePastMs) THEN <<Head(evs)>> \o rest ELSE rest

\* The sort callback with 0 for Infinity: records without a time sort first.
CompareNullFirst(a, b) ==
  LET ta == IF a.scheduled.set THEN GetTime(a.scheduled) ELSE 0
      tb == IF b.scheduled.set THEN GetTime(b.scheduled) ELSE 0
  IN IF ta < tb THEN 0 - 1 ELSE IF ta > tb THEN 1 ELSE 0

\* The sort callback that never answers 0: of two records with the same
\* time, or both without one, the first is put behind the second.
CompareNoTie(a, b) ==
  IF ~a.scheduled.set /\ ~b.scheduled.set THEN 1
  ELSE IF ~a.scheduled.set THEN 1
  ELSE IF ~b.scheduled.set THEN 0 - 1
  ELSE IF GetTime(a.scheduled) - GetTime(b.scheduled) < 0 THEN 0 - 1 ELSE 1

\* The sort callback with a finite stand-in for Infinity that answers 1 for
\* two records without a scheduled-start.
CompareUnsetTieAfter(a, b) ==
  IF ~a.scheduled.set /\ ~b.scheduled.set THEN 1
  ELSE IF ~a.scheduled.set THEN 1
  ELSE IF ~b.scheduled.set THEN 0 - 1
  ELSE LET d == GetTime(a.scheduled) - GetTime(b.scheduled)
       IN IF d < 0 THEN 0 - 1 ELSE IF d > 0 THEN 1 ELSE 0

\* The sort callback, ta - tb, as the sign the sort sees: Infinity - Infinity
\* is NaN, which Array.prototype.sort takes as +0.
Compare(a, b) ==
  IF ~a.scheduled.set /\ ~b.scheduled.set THEN 0
  ELSE IF ~a.scheduled.set THEN 1
  ELSE IF ~b.scheduled.set THEN 0 - 1
  ELSE LET d == GetTime(a.scheduled) - GetTime(b.scheduled)
       IN IF d < 0 THEN 0 - 1 ELSE IF d > 0 THEN 1 ELSE 0

\* x put into the sorted sequence s behind every element that is not greater.
RECURSIVE InsertSorted(_, _)
InsertSorted(x, s) ==
  IF s = <<>> THEN <<x>>
  ELSE IF Compare(Head(s), x) > 0 THEN <<x>> \o s
  ELSE <<Head(s)>> \o InsertSorted(x, Tail(s))

\* Array.prototype.sort with the callback: a stable sort.
RECURSIVE SortEvents(_)
SortEvents(evs) ==
  IF evs = <<>> THEN <<>>
  ELSE InsertSorted(evs[Len(evs)], SortEvents(SubSeq(evs, 1, Len(evs) - 1)))

\* detailed = items.map(...).filter(...).sort(...)
Detailed(items, now, hidePastMs) ==
  SortEvents(FilterEvents(NormalizeAll(items), now, hidePastMs))

\* ids = (searchData.items || []).map(i => i.id?.videoId).filter(Boolean)
RECURSIVE VideoIds(_, _)
VideoIds(items, i) ==
  IF items = <<>> THEN <<>>
  ELSE (IF Head(items) THEN <<i>> ELSE <<>>) \o VideoIds(Tail(items), i + 1)

(***************************************************************************)
(* State.                                                                  *)
(***************************************************************************)
VARIABLES
  pc,          \* position of the script in the current lifecycle
  clock,       \* Date.now()
  storage,     \* localStorage item under CACHE_KEY
  storageFull, \* localStorage.setItem throws in this browser (quota, private mode)
  apiKey,      \* data-api-key
  channelId,   \* data-channel-id
  hideAttr,    \* data-hide-past-hours
  grid,        \* what the mount / .yt-grid shows
  status,      \* .yt-status text
  hadCache,    \* const hadCache of the startup sequence
  cacheReads,  \* calls of readCache in this lifecycle
  searchRes,   \* how the search fetch came out ("none" before it did)
  videosRes,   \* how the details fetch came out
  ids,         \* const ids of fetchUpcoming
  searchReqs,  \* search requests issued in this lifecycle
  videosReqs,  \* details requests issued in this lifecycle
  setItem,     \* writeCache of this lifecycle: "none", "stored" or "thrown"
  written,     \* the last payload and stamp that setItem stored
  \* The build / filter / sort step of fetchUpcoming taken alone:
  fpc,         \* "off", "input", "filtered" or "refiltered"
  fItems,      \* videosData.items
  fNow,        \* const now
  fHide,       \* data-hide-past-hours
  fOut,        \* const detailed
  fOut2        \* the filter and sort applied to detailed again

fvars == << fpc, fItems, fNow, fHide, fOut, fOut2 >>

vars == << pc, clock, storage, storageFull, apiKey, channelId, hideAttr, grid, status,
           hadCache, cacheReads, searchRes, videosRes, ids, searchReqs,
           videosReqs, setItem, written, fvars >>

config == << apiKey, channelId, hideAttr, storageFull >>

\* HIDE_PAST_HOURS and hidePastMs of the running widget.
HIDE_PAST_HOURS == HidePastHours(hideAttr)
hidePastMs == HidePastMs(HIDE_PAST_HOURS)

\* The grace period the details responses are built around.
Grace == IF hidePastMs.nan THEN 0 ELSE hidePastMs.v

StatusCache   == "Loaded from cache."
StatusLoading == "Loading upcoming streams..."
StatusNone    == "No upcoming live streams scheduled."
StatusError   == "Error loading upcoming streams."

Init ==
  /\ pc = "boot"
  /\ clock = T0
  /\ storage \in {NoItem, BadItem}
  /\ storageFull \in BOOLEAN
  /\ apiKey \in KeyAttrs
  /\ channelId \in KeyAttrs
  /\ hideAttr \in HideAttrs
  /\ grid = NoGrid
  /\ status = ""
  /\ hadCache = FALSE
  /\ cacheReads = 0
  /\ searchRes = "none"
  /\ videosRes = "none"
  /\ ids = <<>>
  /\ searchReqs = 0
  /\ videosReqs = 0
  /\ setItem = "none"
  /\ written = [any |-> FALSE, ts |-> 0, data |-> <<>>]
  /\ fpc = "off"
  /\ fItems = <<>>
  /\ fNow = T0
  /\ fHide = <<>>
  /\ fOut = <<>>
  /\ fOut2 = <<>>

(***************************************************************************)
(* Steps of the script.                                                    *)
(***************************************************************************)
\* A configuration check that tests the API key alone.
ConfigureKeyOnly ==
  /\ pc = "boot"
  /\ UNCHANGED fvars
  /\ IF apiKey = <<>>
       THEN /\ grid' = ConfigError
            /\ pc' = "configError"
       ELSE /\ grid' = BlankGrid
            /\ pc' = "loadCache"
  /\ status' = ""
  /\ UNCHANGED << clock, storage, config, hadCache, cacheReads, searchRes,
                  videosRes, ids, searchReqs, videosReqs, setItem, written >>

\* Configuration check and the basic shell.
Configure ==
  /\ pc = "boot"
  /\ UNCHANGED fvars
  /\ IF apiKey = <<>> \/ channelId = <<>>
       THEN /\ grid' = ConfigError
            /\ pc' = "configError"
       ELSE /\ grid' = BlankGrid
            /\ pc' = "loadCache"
  /\ status' = ""
  /\ UNCHANGED << clock, storage, config, hadCache, cacheReads, searchRes,
                  videosRes, ids, searchReqs, videosReqs, setItem, written >>

\* const hadCache = loadFromCache();
LoadFromCache ==
  /\ pc = "loadCache"
  /\ UNCHANGED fvars
  /\ LET cached == ReadCache(storage, clock)
     IN IF cached.hit
          THEN /\ grid' = RenderGrid(cached.data)
               /\ status' = StatusCache
               /\ hadCache' = TRUE
          ELSE /\ hadCache' = FALSE
               /\ UNCHANGED << grid, status >>
  /\ cacheReads' = cacheReads + 1
  /\ pc' = "fetchStart"
  /\ UNCHANGED << clock, storage, config, searchRes, videosRes, ids,
                  searchReqs, videosReqs, setItem, written >>

\* fetchUpcoming() up to its first await: the search request goes out.
FetchStart ==
  /\ pc = "fetchStart"
  /\ UNCHANGED fvars
  /\ status' = StatusLoading
  /\ searchReqs' = searchReqs + 1
  /\ pc' = "search"
  /\ UNCHANGED << clock, storage, config, grid, hadCache, cacheReads, searchRes,
                  videosRes, ids, videosReqs, setItem, written >>

\* writeCache(data) at time now, setItem succeeding or throwing.
DoWrite(data, now, setItemOk) ==
  /\ storage' = WriteCache(storage, data, now, setItemOk)
  /\ setItem' = IF setItemOk THEN "stored" ELSE "thrown"
  /\ written' = IF setItemOk THEN [any |-> TRUE, ts |-> now, data |-> data]
                ELSE written

\* A catch block that also empties the cache.
CatchClearsCache ==
  /\ status' = StatusError
  /\ grid' = ErrorGrid
  /\ pc' = "resolved"
  /\ DoWrite(<<>>, clock, ~storageFull)
  /\ UNCHANGED searchReqs

\* A catch block that tries the search again.
CatchRetries ==
  /\ status' = StatusError
  /\ grid' = ErrorGrid
  /\ pc' = "search"
  /\ searchReqs' = searchReqs + 1
  /\ UNCHANGED << storage, setItem, written >>

\* A catch block that reports the error in the status line and leaves the
\* grid as it is.
CatchKeepsGrid ==
  /\ status' = StatusError
  /\ pc' = "resolved"
  /\ UNCHANGED << grid, storage, setItem, written, searchReqs >>

\* The catch block of fetchUpcoming.
Catch ==
  /\ status' = StatusError
  /\ grid' = ErrorGrid
  /\ pc' = "resolved"
  /\ UNCHANGED << storage, setItem, written, searchReqs >>

\* The search stage without the short-circuit on an empty identifier list.
SearchResponseNoShortCircuit(res) ==
  /\ pc = "search"
  /\ UNCHANGED fvars
  /\ searchRes' = res.kind
  /\ IF res.kind \in FailKinds
       THEN /\ Catch
            /\ UNCHANGED << ids, videosReqs >>
       ELSE /\ ids' = VideoIds(res.items, 1)
            /\ videosReqs' = videosReqs + 1
            /\ pc' = "videos"
            /\ UNCHANGED << grid, status, storage, setItem, written, searchReqs >>
  /\ UNCHANGED << clock, config, hadCache, cacheReads, videosRes >>

\* The search fetch settles: fetchUpcoming runs on to its next await or end.
SearchResponse(res) ==
  /\ pc = "search"
  /\ UNCHANGED fvars
  /\ searchRes' = res.kind
  /\ IF res.kind \in FailKinds
       THEN /\ Catch
            /\ UNCHANGED << ids, videosReqs >>
       ELSE LET found == VideoIds(res.items, 1)
            IN /\ ids' = found
               /\ UNCHANGED searchReqs
               /\ IF Len(found) = 0
                    THEN /\ grid' = RenderGrid(<<>>)
                         /\ status' = StatusNone
                         /\ DoWrite(<<>>, clock, ~storageFull)
                         /\ pc' = "resolved"
                         /\ UNCHANGED videosReqs
                    ELSE /\ videosReqs' = videosReqs + 1
                         /\ pc' = "videos"
                         /\ UNCHANGED << grid, status, storage, setItem, written >>
  /\ UNCHANGED << clock, config, hadCache, cacheReads, videosRes >>

\* The details stage with a writeCache that lets a throwing setItem reach the
\* catch block.
VideosResponseWriteThrows(res) ==
  /\ pc = "videos"
  /\ UNCHANGED fvars
  /\ videosRes' = res.kind
  /\ IF res.kind \in FailKinds
       THEN Catch
       ELSE LET detailed == Detailed(res.items, clock, hidePastMs)
            IN /\ grid' = IF storageFull THEN ErrorGrid ELSE RenderGrid(detailed)
               /\ DoWrite(detailed, clock, ~storageFull)
               /\ status' = IF storageFull THEN StatusError ELSE ""
               /\ pc' = "resolved"
               /\ UNCHANGED searchReqs
  /\ UNCHANGED << clock, config, hadCache, cacheReads, searchRes, ids,
                  videosReqs >>

\* The details fetch settles: build, filter, sort, render, write.
VideosResponse(res) ==
  /\ pc = "videos"
  /\ UNCHANGED fvars
  /\ videosRes' = res.kind
  /\ IF res.kind \in FailKinds
       THEN Catch
       ELSE LET detailed == Detailed(res.items, clock, hidePastMs)
            IN /\ grid' = RenderGrid(detailed)
               /\ DoWrite(detailed, clock, ~storageFull)
               /\ status' = ""
               /\ pc' = "resolved"
               /\ UNCHANGED searchReqs
  /\ UNCHANGED << clock, config, hadCache, cacheReads, searchRes, ids,
                  videosReqs >>

\* A .then callback that reads the cache again and renders what it finds.
ThenCallbackRefresh ==
  /\ pc = "resolved"
  /\ UNCHANGED fvars
  /\ LET cached == ReadCache(storage, clock)
     IN /\ grid' = IF cached.hit THEN RenderGrid(cached.data) ELSE grid
        /\ status' = IF hadCache THEN "" ELSE status
  /\ cacheReads' = cacheReads + 1
  /\ pc' = "settled"
  /\ UNCHANGED << clock, storage, config, hadCache, searchRes, videosRes, ids,
                  searchReqs, videosReqs, setItem, written >>

\* fetchUpcoming().then(() => { if (hadCache) status.textContent = ''; })
ThenCallback ==
  /\ pc = "resolved"
  /\ UNCHANGED fvars
  /\ status' = IF hadCache THEN "" ELSE status
  /\ pc' = "settled"
  /\ UNCHANGED << clock, storage, config, grid, hadCache, cacheReads, searchRes,
                  videosRes, ids, searchReqs, videosReqs, setItem, written >>

(***************************************************************************)
(* Environment.                                                            *)
(***************************************************************************)
\* Time passes while a request is in flight or the page sits idle.
Tick(t) ==
  /\ pc \in {"search", "settled", "configError"}
  /\ UNCHANGED fvars
  /\ t > clock
  /\ clock' = t
  /\ UNCHANGED << pc, storage, config, grid, status, hadCache, cacheReads,
                  searchRes, videosRes, ids, searchReqs, videosReqs, setItem,
                  written >>

\* The page is loaded again: a new lifecycle over the same localStorage.
Reload ==
  /\ pc \in {"settled", "configError"}
  /\ UNCHANGED fvars
  /\ pc' = "boot"
  /\ grid' = NoGrid
  /\ status' = ""
  /\ hadCache' = FALSE
  /\ cacheReads' = 0
  /\ searchRes' = "none"
  /\ videosRes' = "none"
  /\ ids' = <<>>
  /\ searchReqs' = 0
  /\ videosReqs' = 0
  /\ setItem' = "none"
  /\ UNCHANGED << clock, storage, config, written >>

Next ==
  \/ Configure
  \/ LoadFromCache
  \/ FetchStart
  \/ \E res \in SearchResponses : SearchResponse(res)
  \/ \E res \in VideosResponses(clock, Grace) : VideosResponse(res)
  \/ ThenCallback
  \/ \E t \in Times : Tick(t)
  \/ Reload

Spec == Init /\ [][Next]_vars

(***************************************************************************)
(* The widget with its scheduling.  The script's synchronous steps and the *)
(* promise callback run when they can; a request that was issued is        *)
(* answered, with success or failure, so that no request stays in flight   *)
(* for ever.  Nothing is assumed about the passing of time or about the    *)
(* page being loaded again.                                                *)
(***************************************************************************)
\* A step the script takes by itself.
ScriptStep == Configure \/ LoadFromCache \/ FetchStart \/ ThenCallback

\* A request is in flight.
InFlight == pc \in {"search", "videos"}

FairSpec ==
  /\ Init
  /\ [][Next]_vars
  /\ WF_vars(ScriptStep)
  /\ []<>(~InFlight)

(***************************************************************************)
(* The build / filter / sort step of fetchUpcoming on its own inputs.      *)
(***************************************************************************)
\* Values of "now" the step is tried at.
FilterNows == { T0, T0 + CACHE_MS + 1 }

lifeVars == << pc, clock, storage, storageFull, apiKey, channelId, hideAttr,
               grid, status, hadCache, cacheReads, searchRes, videosRes, ids,
               searchReqs, videosReqs, setItem, written >>

\* hidePastMs for the attribute value the step is tried with.
fHidePastMs == HidePastMs(HidePastHours(fHide))

FilterInit ==
  /\ pc = "off"
  /\ clock = T0
  /\ storage = NoItem
  /\ storageFull = FALSE
  /\ apiKey = <<"k">>
  /\ channelId = <<"k">>
  /\ hideAttr = <<>>
  /\ grid = NoGrid
  /\ status = ""
  /\ hadCache = FALSE
  /\ cacheReads = 0
  /\ searchRes = "none"
  /\ videosRes = "none"
  /\ ids = <<>>
  /\ searchReqs = 0
  /\ videosReqs = 0
  /\ setItem = "none"
  /\ written = [any |-> FALSE, ts |-> 0, data |-> <<>>]
  /\ fpc = "input"
  /\ fHide \in HideAttrs
  /\ fNow \in FilterNows
  /\ fItems \in SeqsUpTo(AllLsd(fNow, IF fHidePastMs.nan THEN 0 ELSE fHidePastMs.v),
                          MaxItems)
  /\ fOut = <<>>
  /\ fOut2 = <<>>

\* const detailed = (videosData.items || []).map(...).filter(...).sort(...)
FilterApply ==
  /\ fpc = "input"
  /\ fOut' = Detailed(fItems, fNow, fHidePastMs)
  /\ fpc' = "filtered"
  /\ UNCHANGED << lifeVars, fItems, fNow, fHide, fOut2 >>

\* The filter and the sort once more, on their own output.
FilterAgain ==
  /\ fpc = "filtered"
  /\ fOut2' = SortEvents(FilterEvents(fOut, fNow, fHidePastMs))
  /\ fpc' = "refiltered"
  /\ UNCHANGED << lifeVars, fItems, fNow, fHide, fOut >>

FilterNext == FilterApply \/ FilterAgain

FilterSpec == FilterInit /\ [][FilterNext]_vars

TypeOK ==
  /\ pc \in {"boot", "configError", "loadCache", "fetchStart", "search",
             "videos", "resolved", "settled"}
  /\ clock \in Int
  /\ storage.kind \in {"none", "garbage", "json"}
  /\ grid.kind \in {"none", "configError", "blank", "cards", "cta", "error"}
  /\ status \in {"", StatusCache, StatusLoading, StatusNone, StatusError}
  /\ hadCache \in BOOLEAN
  /\ cacheReads \in 0..1
  /\ searchRes \in ResKinds \cup {"none"}
  /\ videosRes \in ResKinds \cup {"none"}
  /\ setItem \in {"none", "stored", "thrown"}

(***************************************************************************)
(* Properties.                                                             *)
(***************************************************************************)
\* The fetch of this lifecycle has failed the way the catch block sees it.
Failed == searchRes \in FailKinds \/ videosRes \in FailKinds

\* Both remote stages answered with an item list, or the search found no
\* identifier.
Succeeded ==
  /\ searchRes = "ok_items"
  /\ (ids = <<>> \/ videosRes = "ok_items")

\* The record with identifier i is in the sequence evs.
Shows(evs, i) == \E j \in 1..Len(evs) : evs[j].id = i

\* evs is ascending by scheduled-start, records without one last.
Ordered(evs) ==
  \A i, j \in 1..Len(evs) :
    i < j =>
      /\ (evs[i].scheduled.set /\ evs[j].scheduled.set
            => GetTime(evs[i].scheduled) <= GetTime(evs[j].scheduled))
      /\ (~evs[i].scheduled.set => ~evs[j].scheduled.set)

FiveMinutes == 5 * 60 * 1000

\* C1: no record whose actual-end is set is in the rendered list, in any
\* state of a lifecycle, be the list rendered from the cache or from a fetch.
C1_NoEndedEventRendered ==
  \A i \in 1..Len(grid.videos) : ~grid.videos[i].actualEnd.set

\* With a NaN grace period only the ended rule removes records: the first
\* item of a response was removed, the second is shown, and the list shown
\* is the one read back from the cache on a later page load.
C1_Witness ==
  /\ pc = "fetchStart"
  /\ hadCache
  /\ HIDE_PAST_HOURS.nan
  /\ grid.kind = "cards"
  /\ Len(grid.videos) = 1
  /\ grid.videos[1].id = 2
  /\ grid.videos[1].scheduled.set

\* C2: for a grace period g >= 0 and "now" T, an item with a scheduled-start,
\* no actual-start and no actual-end is in the filter's output exactly when
\* scheduled-start + g >= T; T - g - 1 is excluded and T - g + 1 is retained.
C2_StaleBoundary ==
  (fpc \in {"filtered", "refiltered"} /\ ~fHidePastMs.nan) =>
    /\ fHidePastMs.v >= 0
    /\ \A i \in 1..Len(fItems) :
         LET v == fItems[i]
         IN (v.hasLsd /\ v.scheduledStartTime.set /\ ~v.actualStartTime.set
               /\ ~v.actualEndTime.set) =>
              /\ Shows(fOut, i) <=>
                   (GetTime(v.scheduledStartTime) + fHidePastMs.v >= fNow)
              /\ (v.scheduledStartTime = ISO(fNow - fHidePastMs.v - 1)
                    => ~Shows(fOut, i))
              /\ (v.scheduledStartTime = ISO(fNow - fHidePastMs.v + 1)
                    => Shows(fOut, i))

\* Grace period 0: of an item scheduled at T - 1 and one scheduled at T + 1,
\* both unstarted, the filter keeps the second alone.
C2_Witness ==
  /\ fpc = "filtered"
  /\ fHide = <<"0">>
  /\ fItems = << Lsd(ISO(fNow - 1), Null, Null), Lsd(ISO(fNow + 1), Null, Null) >>
  /\ Len(fOut) = 1
  /\ fOut[1].id = 2

\* C3: a fetch that fails with a non-success status or a network error, on
\* either endpoint, never calls writeCache, and the cache entry is changed by
\* nothing else: it keeps its stamp and payload and is what readCache returns.
C3_FailedFetchLeavesCache ==
  /\ []((searchRes \in {"neterr", "http_error"}
          \/ videosRes \in {"neterr", "http_error"}) => setItem = "none")
  /\ [][setItem' = "none" =>
          /\ storage' = storage
          /\ ReadCache(storage', clock') = ReadCache(storage, clock')]_vars

\* The details endpoint answered 403 while an unexpired entry was cached:
\* the entry is still there and still read.
C3_Witness ==
  /\ pc = "resolved"
  /\ videosRes = "http_error"
  /\ hadCache
  /\ storage.kind = "json"
  /\ Len(storage.data) > 0
  /\ ReadCache(storage, clock).hit
  /\ ReadCache(storage, clock).data = storage.data

\* C4: after writeCache(P) at time T and no later write, readCache returns P
\* up to T + 5 min - 1 and null from T + 5 min + 1 on, and the entry stays in
\* the storage after it has expired.
C4_CacheRoundTrip ==
  written.any =>
    /\ storage.kind = "json"
    /\ storage.ts = written.ts
    /\ storage.data = written.data
    /\ clock <= written.ts + FiveMinutes - 1
         => ReadCache(storage, clock) = [hit |-> TRUE, data |-> written.data]
    /\ clock >= written.ts + FiveMinutes + 1
         => ~ReadCache(storage, clock).hit

\* loadFromCache found an expired entry: nothing was rendered from it and the
\* entry is still stored.
C4_Witness ==
  /\ pc = "fetchStart"
  /\ written.any
  /\ Len(written.data) > 0
  /\ clock >= written.ts + FiveMinutes + 1
  /\ ~hadCache
  /\ storage.kind = "json"

\* C5: the sequence a successful fetch renders and caches is ascending by
\* scheduled-start, and records without a scheduled-start come last.
C5_RenderedAndCachedOrdered ==
  /\ Ordered(grid.videos)
  /\ storage.kind = "json" => Ordered(storage.data)
  /\ (pc = "resolved" /\ Succeeded /\ setItem = "stored")
       => storage.data = grid.videos

\* The response listed a record without a scheduled-start first and a
\* scheduled one second; they are rendered and cached the other way round.
C5_Witness ==
  /\ pc = "resolved"
  /\ videosRes = "ok_items"
  /\ Len(grid.videos) = 2
  /\ grid.videos[1].id = 2
  /\ grid.videos[1].scheduled.set
  /\ grid.videos[2].id = 1
  /\ ~grid.videos[2].scheduled.set
  /\ storage.data = grid.videos

\* The search answered with success and its item list holds no video
\* identifier.
EmptySearch == searchRes = "ok_items" /\ ids = <<>>

\* C6 as claimed: after a successful search with no identifier the details
\* endpoint is never queried, the call-to-action is rendered, no error is
\* shown, and the cache holds the empty payload stamped with the current time.
C6_EmptySearchAsClaimed ==
  (EmptySearch /\ pc \in {"resolved", "settled"}) =>
    /\ videosReqs = 0
    /\ videosRes = "none"
    /\ grid.kind = "cta"
    /\ grid.videos = <<>>
    /\ status # StatusError
    /\ storage.kind = "json"
    /\ storage.data = <<>>
    /\ pc = "resolved" => storage.ts = clock

\* C6 amended: the same, the cache holding the empty payload stamped with the
\* current time when localStorage takes the write; when setItem throws, the
\* failure is swallowed and the storage keeps what it held.
C6_EmptySearch ==
  (EmptySearch /\ pc \in {"resolved", "settled"}) =>
    /\ videosReqs = 0
    /\ videosRes = "none"
    /\ grid.kind = "cta"
    /\ grid.videos = <<>>
    /\ status # StatusError
    /\ setItem = (IF storageFull THEN "thrown" ELSE "stored")
    /\ ~storageFull =>
         /\ storage.kind = "json"
         /\ storage.data = <<>>
         /\ pc = "resolved" => storage.ts = clock

\* The search listed one item without a video identifier while a non-empty
\* cached list was on display: the call-to-action replaces it and the empty
\* payload replaces the cached one.
C6_Witness ==
  /\ pc = "resolved"
  /\ searchRes = "ok_items"
  /\ ids = <<>>
  /\ hadCache
  /\ clock > T0
  /\ grid.kind = "cta"
  /\ storage.kind = "json"
  /\ storage.ts = clock
  /\ storage.data = <<>>

\* C7 as claimed: every remote-call failure, a success response without the
\* item list included, ends in the error state and writes no cache entry.
C7_MalformedIsFailure ==
  (pc \in {"resolved", "settled"}
     /\ (searchRes \in FailKinds \cup {"ok_noitems"}
           \/ videosRes \in FailKinds \cup {"ok_noitems"})) =>
    /\ grid.kind = "error"
    /\ setItem = "none"

\* C8 as claimed: after a failed fetch the widget settles showing the error
\* message in the status line and the error block in the grid.
C8_SettledErrorShown ==
  (pc = "settled" /\ Failed) =>
    /\ status = StatusError
    /\ grid.kind = "error"

\* C9: after a successful fetch whose storage write did not fail, the cache
\* entry is the sequence the fetch rendered, stamped with the time of the
\* write, whatever was stored before, and readCache returns that sequence.
C9_SuccessWritesRendered ==
  (Succeeded /\ ~storageFull /\ pc \in {"resolved", "settled"}) =>
    /\ setItem = "stored"
    /\ storage.kind = "json"
    /\ storage.data = grid.videos
    /\ storage.ts <= clock
    /\ pc = "resolved" =>
         /\ storage.ts = clock
         /\ ReadCache(storage, clock) = [hit |-> TRUE, data |-> grid.videos]

\* A page load that rendered a cached list fetched a different, non-empty
\* list later on: the entry now holds the new list and the new stamp.
C9_Witness ==
  /\ pc = "resolved"
  /\ hadCache
  /\ clock = T0 + CACHE_MS + 1
  /\ videosRes = "ok_items"
  /\ Len(grid.videos) = 2
  /\ storage.kind = "json"
  /\ storage.ts = clock
  /\ storage.data = grid.videos

\* C10: at most one search and one details request in a lifecycle; the
\* details request only after a search response with an identifier; none
\* after a failure, and none once the fetch is over.
C10_SingleAttempt ==
  /\ searchReqs <= 1
  /\ videosReqs <= 1
  /\ pc \in {"boot", "configError", "loadCache", "fetchStart"}
       => searchReqs = 0 /\ videosReqs = 0
  /\ pc \in {"search", "videos", "resolved", "settled"} => searchReqs = 1
  /\ pc = "search" => videosReqs = 0 /\ searchRes = "none"
  /\ videosReqs = 1 => searchRes = "ok_items" /\ Len(ids) >= 1
  /\ pc = "videos" => videosReqs = 1 /\ videosRes = "none"
  /\ searchRes \in FailKinds => videosReqs = 0 /\ pc \in {"resolved", "settled"}
  /\ videosRes \in FailKinds => pc \in {"resolved", "settled"}

\* Both requests went out, the details request failed, and the widget has
\* settled with one request of each kind issued.
C10_Witness ==
  /\ pc = "settled"
  /\ videosRes = "http_error"
  /\ Len(ids) >= 1
  /\ searchReqs = 1
  /\ videosReqs = 1

\* C11: readCache is called, and a hit rendered, before the search request
\* goes out: with a hit the cached list and "Loaded from cache." are on
\* display while no request has been issued, and once the fetch has started
\* the cache is not read, and so not rendered from, again in the lifecycle.
C11_CacheBeforeFetch ==
  /\ cacheReads <= 1
  /\ pc \in {"boot", "loadCache"} => cacheReads = 0 /\ ~hadCache
  /\ hadCache => cacheReads = 1
  /\ searchReqs >= 1 => cacheReads = 1
  /\ (pc = "fetchStart" /\ hadCache) =>
       /\ searchReqs = 0
       /\ videosReqs = 0
       /\ storage.kind = "json"
       /\ clock - storage.ts <= FiveMinutes
       /\ grid.videos = storage.data
       /\ grid.kind = (IF storage.data = <<>> THEN "cta" ELSE "cards")
       /\ status = StatusCache
  /\ (pc \in {"search", "videos"} /\ hadCache) =>
       /\ grid.kind \in {"cards", "cta"}
       /\ grid.videos = storage.data

\* The details request is in flight while the list read from the cache, once,
\* before the search request, is still on display.
C11_Witness ==
  /\ pc = "videos"
  /\ hadCache
  /\ cacheReads = 1
  /\ searchReqs = 1
  /\ videosReqs = 1
  /\ grid.kind = "cards"
  /\ grid.videos = storage.data


\* C12: an item without a scheduled-start, one without liveStreamingDetails
\* included, is in the filter's output exactly when its actual-end is unset,
\* for every "now" and every grace period, a NaN one included.
C12_UnscheduledNeverStale ==
  fpc \in {"filtered", "refiltered"} =>
    \A i \in 1..Len(fItems) :
      LET v == fItems[i]
      IN (~v.hasLsd \/ ~v.scheduledStartTime.set) =>
           (Shows(fOut, i) <=> ~(v.hasLsd /\ v.actualEndTime.set))

\* Grace period 0: an item without liveStreamingDetails is kept, and of two
\* items with details but no scheduled-start the one reported ended is not.
C12_Witness ==
  /\ fpc = "filtered"
  /\ fHide = <<"0">>
  /\ fItems = << NoLsd, Lsd(Null, Null, ISO(fNow)) >>
  /\ Len(fOut) = 1
  /\ fOut[1].id = 1
  /\ ~fOut[1].scheduled.set


\* C13: an item with an actual-start and no actual-end is in the filter's
\* output for every "now" and every grace period, however old its
\* scheduled-start is.
C13_LiveRetained ==
  fpc \in {"filtered", "refiltered"} =>
    \A i \in 1..Len(fItems) :
      LET v == fItems[i]
      IN (v.hasLsd /\ v.actualStartTime.set /\ ~v.actualEndTime.set) =>
           Shows(fOut, i)

\* Grace period 0: two items scheduled at the epoch, one started and one
\* not; the filter keeps the started one alone.
C13_Witness ==
  /\ fpc = "filtered"
  /\ fHide = <<"0">>
  /\ fItems = << Lsd(ISO(0), Null, Null), Lsd(ISO(0), ISO(fNow - 1), Null) >>
  /\ Len(fOut) = 1
  /\ fOut[1].id = 2
  /\ fOut[1].actualStart.set


\* The record with identifier i comes before the one with identifier j in evs.
Before(evs, i, j) ==
  \E a, b \in 1..Len(evs) : a < b /\ evs[a].id = i /\ evs[b].id = j

\* C14: two items of the details response that both lack a scheduled-start
\* and are both retained appear in the output in their order in the response.
C14_SortStable ==
  fpc \in {"filtered", "refiltered"} =>
    \A i, j \in 1..Len(fItems) :
      (i < j
         /\ ~(fItems[i].hasLsd /\ fItems[i].scheduledStartTime.set)
         /\ ~(fItems[j].hasLsd /\ fItems[j].scheduledStartTime.set)
         /\ Shows(fOut, i) /\ Shows(fOut, j)) =>
        /\ Before(fOut, i, j)
        /\ ~Before(fOut, j, i)

\* An item with details but no times, then one without details: both are
\* kept, in this order.
C14_Witness ==
  /\ fpc = "filtered"
  /\ fItems = << Lsd(Null, Null, Null), NoLsd >>
  /\ Len(fOut) = 2
  /\ fOut[1].id = 1
  /\ fOut[2].id = 2
  /\ ~fOut[1].scheduled.set
  /\ ~fOut[2].scheduled.set

\* C15: the filter and the sort applied to their own output, with the same
\* "now" and the same grace period, give that output again: the same records
\* in the same order.
C15_Idempotent ==
  fpc = "refiltered" => fOut2 = fOut

\* Three hours of grace period clamped to 0: of a stale item and one without
\* a scheduled-start the second alone is kept, by both applications.
C15_Witness ==
  /\ fpc = "refiltered"
  /\ fHide = <<"-", "3">>
  /\ fItems = << Lsd(ISO(fNow - 1), Null, Null), NoLsd >>
  /\ Len(fOut) = 1
  /\ fOut[1].id = 2
  /\ fOut2 = fOut


\* C16: a failing cache layer changes nothing in the outcome.  When setItem
\* throws, a successful fetch still ends with the fetched list (cards, or the
\* call-to-action for an empty one) on display and no error shown; when the
\* stored item is missing or unparsable, readCache returns null, nothing is
\* rendered from the cache, and the fetch is started all the same.
C16_CacheFailuresAbsorbed ==
  /\ (storageFull /\ Succeeded /\ pc \in {"resolved", "settled"}) =>
       /\ setItem = "thrown"
       /\ grid.kind \in {"cards", "cta"}
       /\ grid.kind = "cta" <=> grid.videos = <<>>
       /\ EmptySearch => grid.kind = "cta" /\ status = StatusNone
       /\ videosRes = "ok_items" => status = ""
       /\ pc = "resolved" =>
            \A i \in 1..Len(grid.videos) : Keep(grid.videos[i], clock, hidePastMs)
       /\ Ordered(grid.videos)
  /\ storage.kind \in {"none", "garbage"} =>
       /\ ~ReadCache(storage, clock).hit
       /\ pc \in {"fetchStart", "search", "videos"} =>
            /\ ~hadCache
            /\ cacheReads = 1
            /\ grid.kind = "blank"
            /\ status \in {"", StatusLoading}
       /\ pc \in {"search", "videos", "resolved", "settled"} => searchReqs = 1

\* The stored item is unparsable and setItem throws: nothing was rendered
\* from the cache, the fetch ran, and its two records are on display with an
\* empty status line; the storage still holds the unparsable item.
C16_Witness ==
  /\ pc = "settled"
  /\ storageFull
  /\ storage.kind = "garbage"
  /\ ~hadCache
  /\ videosRes = "ok_items"
  /\ setItem = "thrown"
  /\ grid.kind = "cards"
  /\ Len(grid.videos) = 2
  /\ status = ""


\* C17: with data-api-key or data-channel-id missing, the first step of the
\* script shows the configuration error and the script ends: in that
\* lifecycle readCache and writeCache are never called and no request is
\* issued.  With both present the error is never shown.
C17_ConfigFailsFast ==
  /\ (apiKey = <<>> \/ channelId = <<>>) =>
       /\ pc \in {"boot", "configError"}
       /\ pc = "configError" => grid.kind = "configError"
       /\ cacheReads = 0
       /\ ~hadCache
       /\ setItem = "none"
       /\ searchReqs = 0
       /\ videosReqs = 0
       /\ searchRes = "none"
       /\ videosRes = "none"
  /\ (apiKey # <<>> /\ channelId # <<>>) =>
       /\ pc # "configError"
       /\ grid.kind # "configError"

\* The page has the API key but no channel id; time has passed and the page
\* was loaded once more: the configuration error is shown again.
C17_Witness ==
  /\ pc = "configError"
  /\ apiKey # <<>>
  /\ channelId = <<>>
  /\ clock > T0
  /\ grid.kind = "configError"
  /\ cacheReads = 0
  /\ searchReqs = 0


\* C18 as claimed: for every value of data-hide-past-hours (absent, a
\* non-negative integer, a negative integer, non-numeric text) the grace
\* period the filter uses is a number of hours >= 0, and 6 for an absent
\* attribute.
C18_GraceNonNegative ==
  fpc \in {"filtered", "refiltered"} =>
    /\ ~HidePastHours(fHide).nan
    /\ HidePastHours(fHide).v >= 0
    /\ ~fHidePastMs.nan
    /\ fHidePastMs.v = HidePastHours(fHide).v * 60 * 60 * 1000
    /\ fHide = <<>> => HidePastHours(fHide).v = 6

\* The record has a scheduled-start and no actual-start.
Unstarted(ev) == ev.scheduled.set /\ ~ev.actualStart.set

\* C20 as claimed: every unstarted event on display was scheduled no longer
\* ago than the grace period, counted from the filter's "now" when the list
\* comes from a fetch (R = now), and from R - CACHE_MS when it was rendered at
\* time R from the cache, whose snapshot is rendered as stored.
C20_BoundedStaleness ==
  /\ (pc = "fetchStart" /\ hadCache) => grid.videos = storage.data
  /\ \A i \in 1..Len(grid.videos) :
       Unstarted(grid.videos[i]) =>
         /\ (pc = "fetchStart" /\ hadCache) =>
              /\ ~hidePastMs.nan
              /\ GetTime(grid.videos[i].scheduled) + hidePastMs.v >= clock - CACHE_MS
         /\ pc = "resolved" =>
              /\ ~hidePastMs.nan
              /\ GetTime(grid.videos[i].scheduled) + hidePastMs.v >= clock


\* fetchUpcoming has returned: the lifecycle is in its terminal state.
Terminal == pc \in {"resolved", "settled"}

\* The terminal state the grid shows is the one the fetch came to: the error
\* block after a failure, the call-to-action after a search without an
\* identifier, else the fetched list (the call-to-action if it is empty).
OutcomeShown ==
  /\ grid.kind \in {"cards", "cta", "error"}
  /\ grid.kind = "error" <=> Failed
  /\ (~Failed /\ ids = <<>>) => grid.kind = "cta"
  /\ (~Failed /\ ids # <<>>) =>
       /\ videosRes \in {"ok_items", "ok_noitems"}
       /\ grid.kind = (IF grid.videos = <<>> THEN "cta" ELSE "cards")
       /\ setItem = "stored" => grid.videos = storage.data
       /\ pc = "resolved" =>
            \A i \in 1..Len(grid.videos) : Keep(grid.videos[i], clock, hidePastMs)
  /\ grid.kind # "cards" => grid.videos = <<>>

\* C19: when every issued request is answered, a lifecycle that has passed
\* the configuration check comes to the end of fetchUpcoming; there the grid
\* shows exactly one of the fetched cards, the call-to-action and the error
\* block, as the fetch came out and whatever the cache had rendered before,
\* and it keeps showing it until the page is loaded again.
C19_ReachesTerminal ==
  /\ (pc = "loadCache") ~> Terminal
  /\ [](Terminal => OutcomeShown)
  /\ [][(Terminal /\ pc' # "boot") => (Terminal' /\ grid' = grid)]_vars

\* A page load rendered a cached list of cards, then its search request
\* failed at network level: the widget has settled on the error block.
C19_Witness ==
  /\ pc = "settled"
  /\ hadCache
  /\ Len(storage.data) > 0
  /\ searchRes = "neterr"
  /\ grid.kind = "error"


====
